---- MODULE Spec2Model ----
(***************************************************************************)
(* Model of linkcheck/logger/__init__.py: the Logger base class.           *)
(*                                                                         *)
(* The state is one Logger instance (its counters and its file output      *)
(* attributes), the file system as the configured output path finds it,    *)
(* the stream the logger writes to, and the application log (log.warn).    *)
(* The code is Python 2 (file(), unicode): os.makedirs raises OSError,     *)
(* file() raises IOError, and the two are distinct exception classes; a    *)
(* closed file object raises ValueError on write and flush.                *)
(***************************************************************************)
EXTENDS Integers, Sequences, FiniteSets, TLC

\* Bounds of the model.
MaxRecords == 2   \* url records taken in by log_filter_url
MaxWrites == 2    \* chunks that reach the output stream
MaxLog == 2       \* lines surfaced through log.warn
MaxParts == 2     \* names in the parts argument of the constructor

None == "None"

\* Unicode strings handed to write: a sequence of characters.
Texts == {<<"a">>, <<"e'">>}

\* url_data.warnings: an ordered collection of warning entries.
WarningLists == {<<>>, <<"w1">>, <<"w1", "w2">>}

\* url_data as log_filter_url reads it (valid, warnings).
UrlData == [valid : BOOLEAN, warnings : WarningLists]

\* Output paths: one without and one with a directory part.
Filenames == {"out.log", "logs/out.log"}

\* The file system as the output path finds it: isdir (the parent directory
\* exists), mkdir (os.makedirs would succeed), open (file(name, "wb") would
\* succeed), file (the output file has been created).
FsStates ==
    { f \in [isdir : BOOLEAN, mkdir : BOOLEAN, open : BOOLEAN, file : {FALSE}] :
        /\ f.isdir => f.mkdir
        /\ ~f.mkdir => f.open }

NoFs == [isdir |-> TRUE, mkdir |-> TRUE, open |-> TRUE, file |-> FALSE]

\* The field names and their labels, as sequences of characters.
Fields ==
    [name \in {"realurl", "cachekey", "result", "base", "name", "parenturl", "extern", "info", "warning", "dltime", "dlsize", "checktime", "url"} |->
        CASE name = "realurl" -> <<"R", "e", "a", "l", " ", "U", "R", "L">>
          [] name = "cachekey" -> <<"C", "a", "c", "h", "e", " ", "k", "e", "y">>
          [] name = "result" -> <<"R", "e", "s", "u", "l", "t">>
          [] name = "base" -> <<"B", "a", "s", "e">>
          [] name = "name" -> <<"N", "a", "m", "e">>
          [] name = "parenturl" -> <<"P", "a", "r", "e", "n", "t", " ", "U", "R", "L">>
          [] name = "extern" -> <<"E", "x", "t", "e", "r", "n">>
          [] name = "info" -> <<"I", "n", "f", "o">>
          [] name = "warning" -> <<"W", "a", "r", "n", "i", "n", "g">>
          [] name = "dltime" -> <<"D", "/", "L", " ", "T", "i", "m", "e">>
          [] name = "dlsize" -> <<"D", "/", "L", " ", "S", "i", "z", "e">>
          [] name = "checktime" -> <<"C", "h", "e", "c", "k", " ", "T", "i", "m", "e">>
          [] name = "url" -> <<"U", "R", "L">>]

FieldNames == DOMAIN Fields

\* Names a parts argument is drawn from: the fields, "all", and a name that
\* is no field.
PartNames == FieldNames \cup {"all", "bogus"}

\* The constructor's arguments as far as parts go: no parts argument, or a
\* list of names (its order and repetitions do not matter to the code).
PartsArgs ==
    {[hasparts |-> FALSE, parts |-> {}]}
    \cup {[hasparts |-> TRUE, parts |-> P] : P \in {Q \in SUBSET PartNames : Cardinality(Q) <= MaxParts}}

\* self.logparts: None (log all parts) or the given names.
AllParts == [none |-> TRUE, parts |-> {}]

\* Keyword arguments init_fileoutput looks at.
FileArgs ==
    [fileoutput : {TRUE}, filename : Filenames, hasfd : {FALSE}, fd : {None}]
    \cup [fileoutput : {FALSE}, filename : {None}, hasfd : {TRUE}, fd : {"argfd", None}]
    \cup [fileoutput : {FALSE}, filename : {None}, hasfd : {FALSE}, fd : {None}]

VARIABLES
    number, errors, errors_printed, warnings, warnings_printed,
    hist,       \* the records log_filter_url has taken in, in call order
    inited,     \* init_fileoutput has run: the attributes filename, close_fd, fd exist
    filename, close_fd, fd,
    fs,         \* the file system at the output path
    closed,     \* the stream objects that have been closed
    out,        \* the encoded chunks that reached the stream, in order
    log,        \* the lines surfaced through log.warn
    logparts,   \* None (all parts) or the names given
    logspaces,  \* part name -> the spaces before its value
    max_indent,
    locale,     \* the message catalogue installed in the process
    ret,        \* the last operation: its name, the exception it raised, the stream calls it made
    thr         \* the two threads of the concurrent specification

counters == <<number, errors, errors_printed, warnings, warnings_printed>>
sinkvars == <<inited, filename, close_fd, fd, fs, closed, out, log>>
partvars == <<logparts, logspaces, max_indent, locale>>
vars == <<partvars, counters, hist, sinkvars, ret, thr>>

\* ------------------------------------------------------------------ helpers

\* os.path.dirname
Dirname(f) == IF f = "logs/out.log" THEN "logs" ELSE ""

EncodeChar(c) == IF c = "e'" THEN "?" ELSE c

\* Logger.encode with an ASCII output encoding: characters the encoding
\* cannot represent are replaced ("replace").
Encode(s) == [i \in 1..Len(s) |-> EncodeChar(s[i])]

\* The logger's file output state as one value.
Sink ==
    [inited |-> inited, filename |-> filename, close_fd |-> close_fd, fd |-> fd,
     fs |-> fs, closed |-> closed, out |-> out, log |-> log,
     fault |-> "none", calls |-> <<>>, arg |-> <<>>]

Raise(s, exc) == [s EXCEPT !.fault = exc]

Called(s, what) == [s EXCEPT !.calls = Append(@, what)]

\* The text the operation was called with.
Arg(s, text) == [s EXCEPT !.arg = text]

\* unicode(os.linesep)
Linesep == <<"\n">>

\* ------------------------------------------------------- file output methods

\* Mutant: self.filename is not reset, so every write opens the file again.
StartFileoutputReopen(s) ==
    LET path == Dirname(s.filename)
        mk == path # "" /\ ~s.fs.isdir
    IN  IF mk /\ ~s.fs.mkdir
        THEN Raise(Called(s, "makedirs"), "OSError")
        ELSE LET s1 == IF mk THEN [Called(s, "makedirs") EXCEPT !.fs.isdir = TRUE]
                             ELSE s
                 s2 == Called(s1, "open")
             IN  IF s2.fs.open
                 THEN [s2 EXCEPT !.fd = "file", !.close_fd = TRUE, !.fs.file = TRUE,
                                 !.out = <<>>]
                 ELSE [s2 EXCEPT !.log = Append(@, "could not open"),
                                 !.fd = "dummy"]

StartFileoutput(s) ==
    LET path == Dirname(s.filename)
        mk == path # "" /\ ~s.fs.isdir
    IN  IF mk /\ ~s.fs.mkdir
        THEN \* os.makedirs raises OSError, which "except IOError" does not catch
             Raise(Called(s, "makedirs"), "OSError")
        ELSE LET s1 == IF mk THEN [Called(s, "makedirs") EXCEPT !.fs.isdir = TRUE]
                             ELSE s
                 s2 == Called(s1, "open")
             IN  IF s2.fs.open
                 THEN [s2 EXCEPT !.fd = "file", !.close_fd = TRUE, !.fs.file = TRUE,
                                 !.out = <<>>, !.filename = None]
                 ELSE [s2 EXCEPT !.log = Append(@, "could not open"),
                                 !.fd = "dummy", !.filename = None]

\* Logger.flush; ok: the stream's flush succeeds. The attribute check
\* (hasattr) and the AttributeError of None.flush() make it a no-op on a
\* logger without a stream.
Flush(s, ok) ==
    IF ~s.inited THEN s
    ELSE IF s.fd = None THEN s
    ELSE IF s.fd = "dummy" THEN Called(s, "flush")
    ELSE IF s.fd \in s.closed THEN Raise(Called(s, "flush"), "ValueError")
    ELSE IF ok THEN Called(s, "flush")
    ELSE \* IOError, swallowed
         Called(s, "flush failed")

\* self.fd.close(); ok: the stream's close succeeds. A file object is closed
\* after close() whether or not close() raised.
StreamClose(s, ok) ==
    IF s.fd = "dummy" THEN Called(s, "close")
    ELSE IF s.fd \in s.closed THEN Called(s, "close")
    ELSE IF ok THEN [Called(s, "close") EXCEPT !.closed = @ \cup {s.fd}]
    ELSE Raise([Called(s, "close failed") EXCEPT !.closed = @ \cup {s.fd}], "IOError")

\* Mutant: close_fileoutput closes the stream whoever owns it.
MustCloseAlways(s) == TRUE

\* "if self.close_fd" of close_fileoutput
MustClose(s) == s.close_fd

CloseFileoutput(s, flushOk, closeOk) ==
    IF ~s.inited THEN Raise(s, "AttributeError")
    ELSE IF s.fd = None THEN s
    ELSE LET s1 == Flush(s, flushOk)
         IN  IF s1.fault # "none" THEN s1
             ELSE LET s2 == IF MustClose(s1) THEN StreamClose(s1, closeOk) ELSE s1
                  IN  IF s2.fault # "none" THEN s2
                      ELSE [s2 EXCEPT !.fd = None]

\* self.fd.write(self.encode(s))
StreamWrite(s, text) ==
    IF s.fd = "dummy" THEN Called(s, "write")
    ELSE IF s.fd \in s.closed THEN Raise(Called(s, "write"), "ValueError")
    ELSE [Called(s, "write") EXCEPT !.out = Append(@, Encode(text))]

Write(s, text) ==
    IF ~s.inited THEN Raise(s, "AttributeError")
    ELSE LET s1 == IF s.filename # None THEN StartFileoutput(s) ELSE s
         IN  IF s1.fault # "none" THEN s1
             ELSE IF s1.fd = None
                  THEN [s1 EXCEPT !.log = Append(@, "uninitialized or closed")]
                  ELSE StreamWrite(s1, text)

\* write(s) then write(unicode(os.linesep))
Writeln(s, text) ==
    LET s1 == Write(s, text)
    IN  IF s1.fault # "none" THEN s1 ELSE Write(s1, Linesep)

\* log_url of a concrete logger: one write of the record's rendering.
LogUrl(s, text) == Write(Called(s, "log_url"), text)

\* Mutant: log_url is called whatever do_print is.
RenderAlways(s, do_print, text) == LogUrl(s, text)

\* The end of log_filter_url: log_url is called if do_print.
Render(s, do_print, text) == IF do_print THEN LogUrl(s, text) ELSE s

\* ------------------------------------------------------------------ actions

Commit(op, s) ==
    /\ inited' = s.inited
    /\ filename' = s.filename
    /\ close_fd' = s.close_fd
    /\ fd' = s.fd
    /\ fs' = s.fs
    /\ closed' = s.closed
    /\ out' = s.out
    /\ log' = s.log
    /\ ret' = [op |-> op, fault |-> s.fault, calls |-> s.calls, arg |-> s.arg]

Room == Len(out) < MaxWrites /\ Len(log) < MaxLog

\* Two threads outside write and close_fileoutput. w, c: the line each thread
\* is at; wtext: the argument of write; wfd: the value of self.fd the writer
\* loaded at line 181; wres: how the last write ended; wfault, cfault: the
\* exception that left write, close_fileoutput.
Idle == [w |-> "idle", c |-> "idle", wtext |-> <<>>, wfd |-> None, wres |-> "none",
         wfault |-> "none", cfault |-> "none"]

Init ==
    /\ number = 0 /\ errors = 0 /\ errors_printed = 0
    /\ warnings = 0 /\ warnings_printed = 0
    /\ hist = <<>>
    /\ inited = FALSE /\ filename = None /\ close_fd = FALSE /\ fd = None
    /\ fs = NoFs /\ closed = {} /\ out = <<>> /\ log = <<>>
    /\ ret = [op |-> "__init__", fault |-> "none", calls |-> <<>>, arg |-> <<>>]
    /\ thr = Idle
    /\ logparts = AllParts /\ logspaces = <<>> /\ max_indent = 0 /\ locale = "C"

\* The attributes init_fileoutput sets from args; f is the file system at
\* args['filename'].
InitFileoutputSink(args, f) ==
    IF args.fileoutput
    THEN [filename |-> args.filename, close_fd |-> FALSE, fd |-> None, fs |-> f]
    ELSE [filename |-> None, close_fd |-> FALSE,
          fd |-> IF args.hasfd THEN args.fd ELSE "stdout", fs |-> NoFs]

\* A path without a directory part lies in the current directory, which exists.
FsOf(args, f) == args.fileoutput /\ Dirname(args.filename) = "" => f.isdir

\* Called by a concrete logger's constructor, right after Logger.__init__.
InitFileoutputArgs(args, f) ==
    /\ ret.op = "__init__"
    /\ FsOf(args, f)
    /\ inited' = TRUE
    /\ filename' = InitFileoutputSink(args, f).filename
    /\ close_fd' = InitFileoutputSink(args, f).close_fd
    /\ fd' = InitFileoutputSink(args, f).fd
    /\ fs' = InitFileoutputSink(args, f).fs
    /\ ret' = [op |-> "init_fileoutput", fault |-> "none", calls |-> <<>>, arg |-> <<>>]
    /\ UNCHANGED <<partvars, counters, hist, closed, out, log, thr>>

InitFileoutput == \E args \in FileArgs, f \in FsStates : InitFileoutputArgs(args, f)

DoWrite ==
    /\ Room
    /\ \E text \in Texts : Commit("write", Arg(Write(Sink, text), text))
    /\ UNCHANGED <<partvars, counters, hist, thr>>

\* Room for the two writes of writeln.
Room2 == Len(out) + 2 <= MaxWrites /\ Len(log) + 2 <= MaxLog

DoWriteln ==
    /\ Room2
    /\ \E text \in Texts : Commit("writeln", Arg(Writeln(Sink, text), text))
    /\ UNCHANGED <<partvars, counters, hist, thr>>

DoFlush ==
    /\ \E ok \in BOOLEAN : Commit("flush", Flush(Sink, ok))
    /\ UNCHANGED <<partvars, counters, hist, thr>>

DoClose ==
    /\ \E flushOk \in BOOLEAN, closeOk \in BOOLEAN :
          Commit("close_fileoutput", CloseFileoutput(Sink, flushOk, closeOk))
    /\ UNCHANGED <<partvars, counters, hist, thr>>

\* The counter updates of log_filter_url, one operator per counter.
NewNumber(n) == n + 1

\* Mutant: errors is never incremented.
NewErrorsNever(e, url_data) == e

NewErrors(e, url_data) == IF ~url_data.valid THEN e + 1 ELSE e

\* Mutant: errors_printed is never incremented.
NewErrorsPrintedNever(e, url_data, do_print) == e

NewErrorsPrinted(e, url_data, do_print) ==
    IF ~url_data.valid /\ do_print THEN e + 1 ELSE e

\* Mutant: warnings are counted inside the do_print branch only.
NewWarningsPrintedOnly(w, url_data, do_print) ==
    IF do_print THEN w + Len(url_data.warnings) ELSE w

\* Mutant: one per record with warnings instead of the number of warnings.
NewWarningsPerRecord(w, url_data, do_print) ==
    IF Len(url_data.warnings) > 0 THEN w + 1 ELSE w

NewWarnings(w, url_data, do_print) == w + Len(url_data.warnings)

\* Mutant: printed warnings are counted whatever do_print is.
NewWarningsPrintedAlways(w, url_data, do_print) == w + Len(url_data.warnings)

NewWarningsPrinted(w, url_data, do_print) ==
    IF do_print THEN w + Len(url_data.warnings) ELSE w

LogFilterUrlArgs(url_data, do_print, text) ==
        /\ number' = NewNumber(number)
        /\ errors' = NewErrors(errors, url_data)
        /\ errors_printed' = NewErrorsPrinted(errors_printed, url_data, do_print)
        /\ warnings' = NewWarnings(warnings, url_data, do_print)
        /\ warnings_printed' = NewWarningsPrinted(warnings_printed, url_data, do_print)
        /\ hist' = Append(hist, [valid |-> url_data.valid, warnings |-> url_data.warnings,
                                 do_print |-> do_print])
        /\ Commit("log_filter_url", Render(Sink, do_print, text))
        /\ UNCHANGED <<partvars, thr>>

LogFilterUrl ==
    /\ Len(hist) < MaxRecords
    /\ Room
    /\ \E url_data \in UrlData, do_print \in BOOLEAN, text \in Texts :
          LogFilterUrlArgs(url_data, do_print, text)

Next == InitFileoutput \/ DoWrite \/ DoFlush \/ DoClose \/ LogFilterUrl

Spec == Init /\ [][Next]_vars

\* The file output alone, writeln included: no record is taken in.
NextSink == InitFileoutput \/ DoWrite \/ DoWriteln \/ DoFlush \/ DoClose

SpecSink == Init /\ [][NextSink]_vars

\* ------------------------------------------------------- parts and alignment

\* self.logparts as __init__ sets it from the parts argument.
InitLogparts(args) ==
    IF args.hasparts /\ "all" \notin args.parts
    THEN [none |-> FALSE, parts |-> args.parts]
    ELSE AllParts

\* The greatest member of a non-empty set of numbers.
Max(S) == CHOOSE m \in S : \A n \in S : n <= m

\* u" " * n
Blanks(n) == [i \in 1..n |-> " "]

\* The message catalogues a process can have installed: none, or one that
\* translates some of the labels.
Locales == {"C", "de"}

\* The installed translation function: the catalogue's message for a label,
\* or the label itself where the catalogue has none.
Translate(loc, label) ==
    IF loc # "de" THEN label
    ELSE CASE label = <<"R", "e", "s", "u", "l", "t">>
                -> <<"E", "r", "g", "e", "b", "n", "i", "s">>
           [] label = <<"B", "a", "s", "e">>
                -> <<"B", "a", "s", "i", "s">>
           [] label = <<"W", "a", "r", "n", "i", "n", "g">>
                -> <<"W", "a", "r", "n", "u", "n", "g">>
           [] label = <<"D", "/", "L", " ", "T", "i", "m", "e">>
                -> <<"D", "/", "L", " ", "Z", "e", "i", "t">>
           [] OTHER -> label

\* Logger.part: the translated label of a part name; Fields[name] raises
\* KeyError for a name that is no field.
Part(name) == Translate(locale, Fields[name])

\* Fields[name] finds the key.
KnownPart(name) == name \in FieldNames

\* Mutant: the indent is the longest label, without the extra space.
MaxIndentNoSpace(parts) == Max({Len(Part(x)) : x \in parts})

\* max(len(x) for x in values) + 1
MaxIndent(parts) == Max({Len(Part(x)) : x \in parts}) + 1

\* Mutant: start_output passes over the names that are no fields.
StartOutputSkipUnknown(p) ==
    LET parts == IF p.logparts.none THEN FieldNames ELSE p.logparts.parts \cap FieldNames
    IN  IF parts = {}
        THEN [p EXCEPT !.fault = "ValueError"]
        ELSE LET indent == MaxIndent(parts)
             IN  [p EXCEPT !.max_indent = indent,
                           !.logspaces = [key \in (DOMAIN p.logspaces) \cup parts |->
                                            IF key \in parts
                                            THEN Blanks(indent - Len(Part(key)))
                                            ELSE p.logspaces[key]]]

\* Logger.start_output on p = [logparts, logspaces, max_indent, fault].
StartOutput(p) ==
    LET parts == IF p.logparts.none THEN FieldNames ELSE p.logparts.parts
    IN  IF \E x \in parts : ~KnownPart(x)
        THEN \* Fields[name] raises inside max(), before anything is assigned
             [p EXCEPT !.fault = "KeyError"]
        ELSE IF parts = {}
        THEN \* max() of an empty sequence
             [p EXCEPT !.fault = "ValueError"]
        ELSE LET indent == MaxIndent(parts)
             IN  [p EXCEPT !.max_indent = indent,
                           !.logspaces = [key \in (DOMAIN p.logspaces) \cup parts |->
                                            IF key \in parts
                                            THEN Blanks(indent - Len(Part(key)))
                                            ELSE p.logspaces[key]]]

\* Logger.has_part
HasPart(name) == IF logparts.none THEN TRUE ELSE name \in logparts.parts

\* Logger.spaces
Spaces(name) == logspaces[name]

\* A logger as __init__ leaves it for a given parts argument.
InitParts ==
    /\ number = 0 /\ errors = 0 /\ errors_printed = 0
    /\ warnings = 0 /\ warnings_printed = 0
    /\ hist = <<>>
    /\ inited = FALSE /\ filename = None /\ close_fd = FALSE /\ fd = None
    /\ fs = NoFs /\ closed = {} /\ out = <<>> /\ log = <<>>
    /\ ret = [op |-> "__init__", fault |-> "none", calls |-> <<>>, arg |-> <<>>]
    /\ thr = Idle
    /\ \E args \in PartsArgs : logparts = InitLogparts(args)
    /\ logspaces = <<>> /\ max_indent = 0
    /\ locale \in Locales

\* start_output, the first call of a session.
DoStartOutput ==
    /\ ret.op = "__init__"
    /\ LET p == StartOutput([logparts |-> logparts, logspaces |-> logspaces,
                             max_indent |-> max_indent, fault |-> "none"])
       IN  /\ logparts' = p.logparts
           /\ logspaces' = p.logspaces
           /\ max_indent' = p.max_indent
           /\ UNCHANGED locale
           /\ ret' = [op |-> "start_output", fault |-> p.fault, calls |-> <<>>,
                      arg |-> <<>>]
    /\ UNCHANGED <<counters, hist, sinkvars, thr>>

\* The first record of a session that start_output has started, taken in
\* without printing.
DoFirstIntake ==
    /\ ret.op = "start_output" /\ ret.fault = "none"
    /\ \E url_data \in UrlData, text \in Texts : LogFilterUrlArgs(url_data, FALSE, text)

NextParts == DoStartOutput \/ DoFirstIntake

SpecParts == InitParts /\ [][NextParts]_vars

\* ------------------------------------------------- write against close, by line
\* One thread in write, one in close_fileoutput, on the same logger. A step
\* is one read or write of an attribute, or one call on the stream or the
\* file system: the interpreter may switch threads between any two of them.

\* A logger as its constructor left it, init_fileoutput done, on a file system
\* where a write alone does not raise.
InitConc ==
    /\ number = 0 /\ errors = 0 /\ errors_printed = 0
    /\ warnings = 0 /\ warnings_printed = 0
    /\ hist = <<>>
    /\ inited = TRUE /\ closed = {} /\ out = <<>> /\ log = <<>>
    /\ \E args \in FileArgs, f \in FsStates :
          /\ FsOf(args, f) /\ f.mkdir
          /\ filename = InitFileoutputSink(args, f).filename
          /\ close_fd = InitFileoutputSink(args, f).close_fd
          /\ fd = InitFileoutputSink(args, f).fd
          /\ fs = InitFileoutputSink(args, f).fs
    /\ ret = [op |-> "init_fileoutput", fault |-> "none", calls |-> <<>>, arg |-> <<>>]
    /\ thr = Idle
    /\ logparts = AllParts /\ logspaces = <<>> /\ max_indent = 0 /\ locale = "C"

WGoto(l) == thr' = [thr EXCEPT !.w = l]
CGoto(l) == thr' = [thr EXCEPT !.c = l]
WRaise(exc) == thr' = [thr EXCEPT !.w = "raised", !.wfault = exc]
CRaise(exc) == thr' = [thr EXCEPT !.c = "raised", !.cfault = exc]
WReturn(res) == thr' = [thr EXCEPT !.w = "idle", !.wres = res]

\* write is called
WCall ==
    /\ thr.w = "idle" /\ Room
    /\ \E text \in Texts : thr' = [thr EXCEPT !.w = "l174", !.wtext = text, !.wres = "none"]
    /\ UNCHANGED <<partvars, counters, hist, sinkvars, ret>>

\* if self.filename is not None
W174 ==
    /\ thr.w = "l174"
    /\ WGoto(IF filename # None THEN "l94" ELSE "l176")
    /\ UNCHANGED <<partvars, counters, hist, sinkvars, ret>>

\* path = os.path.dirname(self.filename); if path and not isdir(path): makedirs(path)
W94 ==
    /\ thr.w = "l94"
    /\ IF Dirname(filename) # "" /\ ~fs.isdir
       THEN IF fs.mkdir
            THEN fs' = [fs EXCEPT !.isdir = TRUE] /\ WGoto("l96")
            ELSE fs' = fs /\ WRaise("OSError")
       ELSE fs' = fs /\ WGoto("l96")
    /\ UNCHANGED <<partvars, counters, hist, inited, filename, close_fd, fd, closed, out, log, ret>>

\* self.fd = file(self.filename, "wb")
W96 ==
    /\ thr.w = "l96"
    /\ IF fs.open
       THEN /\ fd' = "file" /\ fs' = [fs EXCEPT !.file = TRUE] /\ out' = <<>>
            /\ WGoto("l97")
       ELSE /\ UNCHANGED <<fd, fs, out>>
            /\ WGoto("l100")
    /\ UNCHANGED <<partvars, counters, hist, inited, filename, close_fd, closed, log, ret>>

\* self.close_fd = True
W97 ==
    /\ thr.w = "l97"
    /\ close_fd' = TRUE
    /\ WGoto("l104")
    /\ UNCHANGED <<partvars, counters, hist, inited, filename, fd, fs, closed, out, log, ret>>

\* except IOError: log.warn(...)
W100 ==
    /\ thr.w = "l100"
    /\ log' = Append(log, "could not open")
    /\ WGoto("l103")
    /\ UNCHANGED <<partvars, counters, hist, inited, filename, close_fd, fd, fs, closed, out, ret>>

\* self.fd = dummy.Dummy()
W103 ==
    /\ thr.w = "l103"
    /\ fd' = "dummy"
    /\ WGoto("l104")
    /\ UNCHANGED <<partvars, counters, hist, inited, filename, close_fd, fs, closed, out, log, ret>>

\* self.filename = None
W104 ==
    /\ thr.w = "l104"
    /\ filename' = None
    /\ WGoto("l176")
    /\ UNCHANGED <<partvars, counters, hist, inited, close_fd, fd, fs, closed, out, log, ret>>

\* if self.fd is None
W176 ==
    /\ thr.w = "l176"
    /\ WGoto(IF fd = None THEN "l178" ELSE "l181")
    /\ UNCHANGED <<partvars, counters, hist, sinkvars, ret>>

\* log.warn("writing to unitialized or closed file")
W178 ==
    /\ thr.w = "l178"
    /\ log' = Append(log, "uninitialized or closed")
    /\ WReturn("warned")
    /\ UNCHANGED <<partvars, counters, hist, inited, filename, close_fd, fd, fs, closed, out, ret>>

\* self.fd.write: self.fd is read again; None has no attribute write
W181 ==
    /\ thr.w = "l181"
    /\ IF fd = None
       THEN WRaise("AttributeError")
       ELSE thr' = [thr EXCEPT !.w = "l181call", !.wfd = fd]
    /\ UNCHANGED <<partvars, counters, hist, sinkvars, ret>>

\* the call of the write method loaded at line 181
W181Call ==
    /\ thr.w = "l181call"
    /\ IF thr.wfd = "dummy" THEN out' = out /\ WReturn("discarded")
       ELSE IF thr.wfd \in closed THEN out' = out /\ WRaise("ValueError")
       ELSE out' = Append(out, Encode(thr.wtext)) /\ WReturn("written")
    /\ UNCHANGED <<partvars, counters, hist, inited, filename, close_fd, fd, fs, closed, log, ret>>

\* close_fileoutput is called
CCall ==
    /\ thr.c = "idle"
    /\ CGoto("l110")
    /\ UNCHANGED <<partvars, counters, hist, sinkvars, ret>>

\* if self.fd is not None
C110 ==
    /\ thr.c = "l110"
    /\ CGoto(IF fd # None THEN "l111" ELSE "idle")
    /\ UNCHANGED <<partvars, counters, hist, sinkvars, ret>>

\* self.flush(): self.fd.flush(), IOError and AttributeError swallowed
C111 ==
    /\ thr.c = "l111"
    /\ IF fd \in closed THEN CRaise("ValueError") ELSE CGoto("l112")
    /\ UNCHANGED <<partvars, counters, hist, sinkvars, ret>>

\* if self.close_fd
C112 ==
    /\ thr.c = "l112"
    /\ CGoto(IF close_fd THEN "l113" ELSE "l114")
    /\ UNCHANGED <<partvars, counters, hist, sinkvars, ret>>

\* self.fd.close()
C113 ==
    /\ thr.c = "l113"
    /\ IF fd = None THEN closed' = closed /\ CRaise("AttributeError")
       ELSE IF fd = "dummy" \/ fd \in closed THEN closed' = closed /\ CGoto("l114")
       ELSE /\ closed' = closed \cup {fd}
            /\ \E ok \in BOOLEAN : IF ok THEN CGoto("l114") ELSE CRaise("IOError")
    /\ UNCHANGED <<partvars, counters, hist, inited, filename, close_fd, fd, fs, out, log, ret>>

\* self.fd = None
C114 ==
    /\ thr.c = "l114"
    /\ fd' = None
    /\ CGoto("idle")
    /\ UNCHANGED <<partvars, counters, hist, inited, filename, close_fd, fs, closed, out, log, ret>>

NextConc ==
    \/ WCall \/ W174 \/ W94 \/ W96 \/ W97 \/ W100 \/ W103 \/ W104
    \/ W176 \/ W178 \/ W181 \/ W181Call
    \/ CCall \/ C110 \/ C111 \/ C112 \/ C113 \/ C114

SpecConc == InitConc /\ [][NextConc]_vars

\* ------------------------------------------------------------------- claims

\* The step is one call of log_filter_url; Taken is the record it took in.
Intake == Len(hist') = Len(hist) + 1
Taken == hist'[Len(hist')]

RECURSIVE SumWarnings(_, _)
\* The warnings of the records of h, all of them or the printed ones only.
SumWarnings(h, printedOnly) ==
    IF h = <<>> THEN 0
    ELSE LET r == h[Len(h)]
         IN  SumWarnings(SubSeq(h, 1, Len(h) - 1), printedOnly)
             + (IF printedOnly /\ ~r.do_print THEN 0 ELSE Len(r.warnings))

\* C1: every call of log_filter_url with do_print false adds exactly one to
\* number and leaves errors_printed and warnings_printed as they were,
\* whatever the record's validity and warnings; so N such calls add N.
C1_SuppressedIntake ==
    [][(Intake /\ ~Taken.do_print) =>
          /\ number' = number + 1
          /\ errors_printed' = errors_printed
          /\ warnings_printed' = warnings_printed]_vars

\* Two suppressed calls in a row, an invalid record with warnings among them.
C1_Witness ==
    /\ Len(hist) = 2
    /\ \A i \in 1..2 : ~hist[i].do_print
    /\ \E i \in 1..2 : ~hist[i].valid /\ Len(hist[i].warnings) = 2
    /\ number = 2 /\ errors_printed = 0 /\ warnings_printed = 0

\* C2: one call of log_filter_url with do_print true on an invalid record
\* with W warnings adds 1 to number, errors and errors_printed and W to
\* warnings and warnings_printed, from every prior counter state.
C2_PrintedInvalidIntake ==
    [][(Intake /\ Taken.do_print /\ ~Taken.valid) =>
          /\ number' = number + 1
          /\ errors' = errors + 1
          /\ errors_printed' = errors_printed + 1
          /\ warnings' = warnings + Len(Taken.warnings)
          /\ warnings_printed' = warnings_printed + Len(Taken.warnings)]_vars

\* A printed invalid record with two warnings, taken in after another record.
C2_Witness ==
    /\ Len(hist) = 2
    /\ hist[2].do_print /\ ~hist[2].valid /\ Len(hist[2].warnings) = 2
    /\ warnings_printed >= 2 /\ errors_printed >= 1

\* The scenario of C3: a valid record without warnings, printed, then an
\* invalid record with two warnings, suppressed.
C3_Scenario ==
    /\ Len(hist) = 2
    /\ hist[1].valid /\ hist[1].warnings = <<>> /\ hist[1].do_print
    /\ ~hist[2].valid /\ Len(hist[2].warnings) = 2 /\ ~hist[2].do_print

\* C3: warnings is the sum of the warning counts of all records taken in,
\* warnings_printed the sum over the records taken in with do_print true;
\* the scenario ends with 2, 1, 0, 2, 0.
C3_WarningSums ==
    /\ warnings = SumWarnings(hist, FALSE)
    /\ warnings_printed = SumWarnings(hist, TRUE)
    /\ C3_Scenario =>
          /\ number = 2 /\ errors = 1 /\ errors_printed = 0
          /\ warnings = 2 /\ warnings_printed = 0

C3_Witness == C3_Scenario /\ warnings = 2 /\ warnings_printed = 0

\* C4 as claimed: a record taken in with do_print false never changes warnings.
C4_Claimed ==
    [][(Intake /\ ~Taken.do_print) => warnings' = warnings]_vars

\* C4 as amended: every call of log_filter_url adds the record's warning
\* count to warnings, whatever do_print is; only warnings_printed is
\* incremented inside the do_print branch.
C4_WarningsSeenAlways ==
    [][Intake =>
          /\ warnings' = warnings + Len(Taken.warnings)
          /\ ~Taken.do_print => warnings_printed' = warnings_printed
          /\ Taken.do_print => warnings_printed' = warnings_printed + Len(Taken.warnings)]_vars

\* A suppressed record with warnings has raised warnings above warnings_printed.
C4_Witness ==
    /\ Len(hist) >= 1
    /\ ~hist[Len(hist)].do_print /\ Len(hist[Len(hist)].warnings) > 0
    /\ warnings > warnings_printed

\* The configured output file cannot be opened: its directory is missing and
\* cannot be created, or file() fails.
DirUncreatable == inited /\ ~fs.isdir /\ ~fs.mkdir
OpenFails == inited /\ (~fs.open \/ DirUncreatable)

\* close_fileoutput has cleared the stream.
SinkClosed == inited /\ fd = None /\ filename = None

\* C5 as claimed: with a parent directory that is missing and cannot be
\* created, a write does not raise, and a flush or a close_fileoutput is a
\* no-op that does not raise.
C5_Claimed ==
    (DirUncreatable /\ ret.op \in {"write", "flush", "close_fileoutput"}) =>
        /\ ret.fault = "none"
        /\ ret.op # "write" => ret.calls = <<>>

\* C6 as claimed: after a write on a sink whose deferred open fails, and
\* until close, the sink is a discard target, one warning was surfaced, no
\* file exists, nothing was written and the write returned normally.
C6_Claimed ==
    (OpenFails /\ ret.op = "write" /\ ~SinkClosed) =>
        /\ ret.fault = "none"
        /\ fd = "dummy"
        /\ log = <<"could not open">>
        /\ ~fs.file
        /\ out = <<>>

\* C7 as claimed: close_fd is true only if the current stream is the one the
\* deferred open created.
C7_Claimed == close_fd => fd = "file"

\* C7 as amended: close_fd is true only if the deferred open created the
\* output file, and whenever the logger holds a stream while close_fd is true
\* the stream is that file (close_fileoutput clears the stream and leaves
\* close_fd true); no stream but that file is ever closed by the logger.
C7_OwnedOnly ==
    /\ close_fd => fs.file
    /\ (close_fd /\ fd # None) => fd = "file"
    /\ closed \subseteq {"file"}

\* close_fileoutput has returned on a stream the logger wrote to and did not
\* create (standard output or the caller's): it is not closed.
C7_Witness ==
    /\ ret.op = "close_fileoutput" /\ ret.fault = "none"
    /\ ~close_fd /\ fd = None /\ Len(out) > 0
    /\ closed = {}

\* C8 as claimed: a close_fileoutput directly after a close_fileoutput
\* leaves the file output state unchanged, calls neither flush nor close on
\* the stream, and does not raise.
C8_Claimed ==
    [][(ret.op = "close_fileoutput" /\ ret'.op = "close_fileoutput") =>
          /\ sinkvars' = sinkvars
          /\ ret'.calls = <<>>
          /\ ret'.fault = "none"]_vars

\* C9 as claimed: a write on a logger without a stream (cleared by
\* close_fileoutput, or never initialized) surfaces a warning, drops the
\* data, does not raise and leaves the file output state unchanged.
C9_Claimed ==
    [][(ret'.op = "write" /\ (~inited \/ (fd = None /\ filename = None))) =>
          /\ ret'.fault = "none"
          /\ log' = Append(log, "uninitialized or closed")
          /\ <<inited, filename, close_fd, fd, fs, closed, out>>'
               = <<inited, filename, close_fd, fd, fs, closed, out>>]_vars

\* C10 as claimed: with a write and a close_fileoutput interleaved, a write
\* that has ended has reached the stream (or the discard target) or was
\* dropped with a warning, and no write raises.
C10_Claimed ==
    /\ thr.wfault = "none"
    /\ thr.w = "idle" => thr.wres \in {"none", "written", "discarded", "warned"}

\* The stream's flush or close failed during the last operation.
StreamFailed == \E i \in 1..Len(ret.calls) : ret.calls[i] \in {"flush failed", "close failed"}

\* C11 as claimed: a flush or a close_fileoutput during which the stream's
\* flush or close fails returns normally.
C11_Claimed ==
    (ret.op \in {"flush", "close_fileoutput"} /\ StreamFailed) => ret.fault = "none"

\* The step is a write or a writeln that returned normally on the output file.
FileWritten ==
    ret'.op \in {"write", "writeln"} /\ ret'.fault = "none" /\ fd' = "file"

\* The encoded chunks of the last write or writeln, in call order.
Chunks(r) ==
    IF r.op = "writeln" THEN <<Encode(r.arg), Encode(Linesep)>> ELSE <<Encode(r.arg)>>

\* C12: on a sink with a file path, a write that returns normally leaves
\* the directory and the file created and the file holding what it held
\* before (nothing, when this write opened it) followed by the encoded
\* text of this write; so after any sequence of such writes the file holds
\* the encoded texts of all of them, in call order.
C12_FileHoldsWrites ==
    [][FileWritten =>
          /\ fs'.isdir /\ fs'.file
          /\ out' = (IF fd = "file" THEN out ELSE <<>>) \o Chunks(ret')]_vars

\* A writeln as first operation on a path in a missing directory: the
\* directory and the file were created and the file holds both writes, the
\* unrepresentable character replaced.
C12_Witness ==
    /\ ret.op = "writeln" /\ ret.arg = <<"e'">>
    /\ ret.calls = <<"makedirs", "open", "write", "write">>
    /\ fs.isdir /\ fs.file /\ fd = "file"
    /\ out = <<(<<"?">>), Linesep>>

\* The selected fields: all of them, or the names given.
Selected == IF logparts.none THEN FieldNames ELSE logparts.parts

\* start_output has returned normally.
Started == max_indent # 0

\* The longest label among the selected fields.
LongestLabel ==
    CHOOSE m \in {Len(Part(k)) : k \in Selected} :
        \A k \in Selected : Len(Part(k)) <= m

\* C13: after start_output, for every selected field the number of spaces
\* that spaces() returns plus the length of the field's label is the length
\* of the longest selected label plus one.
C13_Alignment ==
    (ret.op # "__init__" /\ Selected # {} /\ Selected \subseteq FieldNames) =>
        /\ Started
        /\ \A k \in Selected : Len(Spaces(k)) + Len(Part(k)) = LongestLabel + 1

\* The selection {url, result}: indent 7, four spaces for URL, one for Result.
C13_Witness ==
    /\ Started /\ ~logparts.none /\ logparts.parts = {"url", "result"}
    /\ locale = "C"
    /\ max_indent = 7
    /\ Spaces("url") = <<" ", " ", " ", " ">>
    /\ Spaces("result") = <<" ">>

\* The selection names something that is no field.
BadSelection == ~logparts.none /\ \E x \in logparts.parts : x \notin FieldNames

\* No record has been taken in and nothing has reached a stream.
Untouched ==
    /\ number = 0 /\ errors = 0 /\ errors_printed = 0
    /\ warnings = 0 /\ warnings_printed = 0
    /\ hist = <<>> /\ out = <<>>

\* C14: a logger whose selection names something outside the fixed field set
\* gets no further than start_output: start_output raises (KeyError), no
\* record is taken in after it, every counter is zero and nothing has been
\* written.
C14_BadPartFaults ==
    BadSelection =>
        /\ ret.op \in {"__init__", "start_output"}
        /\ ret.op = "start_output" => ret.fault = "KeyError"
        /\ Untouched
        /\ ~Started /\ logspaces = <<>>

\* start_output has raised for the selection {bogus, url}.
C14_Witness ==
    /\ ~logparts.none /\ logparts.parts = {"bogus", "url"}
    /\ ret.op = "start_output" /\ ret.fault = "KeyError"
    /\ Untouched

\* C17: start_output cannot fail: for every selection whose members are all
\* fields, the empty selection and the selection of all fields included, it
\* returns normally and leaves an entry of spaces for every selected field.
C17_Claimed ==
    (ret.op = "start_output" /\ Selected \subseteq FieldNames) =>
        /\ ret.fault = "none"
        /\ DOMAIN logspaces = Selected

\* The calls hold an attempt to open the output file: start_fileoutput ran.
OpenAttempt(calls) == \E i \in 1..Len(calls) : calls[i] \in {"makedirs", "open"}

\* C15: only a write attempts to open the output file (init_fileoutput,
\* flush, close_fileoutput and an intake with do_print false never do), and
\* an operation that follows one holding an attempt, successful or not, does
\* not attempt it again.
C15_Claimed ==
    [][/\ (\/ ret'.op \in {"init_fileoutput", "flush", "close_fileoutput"}
           \/ (Intake /\ ~Taken.do_print))
          => ~OpenAttempt(ret'.calls)
       /\ OpenAttempt(ret.calls) => ~OpenAttempt(ret'.calls)]_vars

\* How often log_url was called.
LogUrlCalls(calls) == Cardinality({i \in 1..Len(calls) : calls[i] = "log_url"})

\* C16: a call of log_filter_url with do_print false does not call log_url,
\* makes no call on a stream or the file system and leaves the file output
\* as it was (a file not yet opened stays unopened); a call with do_print
\* true calls log_url exactly once; no other operation calls it.
C16_RenderIffPrinted ==
    [][/\ (Intake /\ ~Taken.do_print) =>
              /\ UNCHANGED sinkvars
              /\ ret'.calls = <<>> /\ ret'.fault = "none"
       /\ (Intake /\ Taken.do_print) => LogUrlCalls(ret'.calls) = 1
       /\ ~Intake => LogUrlCalls(ret'.calls) = 0]_vars

\* A record was taken in without printing on a file output not yet opened.
C16_Witness ==
    /\ ret.op = "log_filter_url" /\ ret.calls = <<>>
    /\ hist # <<>> /\ ~hist[Len(hist)].do_print
    /\ inited /\ filename # None /\ fd = None /\ ~fs.file /\ out = <<>>

\* The counters are natural numbers in the order the summary relies on.
CountersOrdered ==
    /\ number >= 0 /\ errors >= 0 /\ errors_printed >= 0
    /\ warnings >= 0 /\ warnings_printed >= 0
    /\ errors_printed <= errors /\ errors <= number
    /\ warnings_printed <= warnings

\* No counter decreases, and a step that changes one is a call of
\* log_filter_url.
CountersStep ==
    /\ number' >= number /\ errors' >= errors /\ errors_printed' >= errors_printed
    /\ warnings' >= warnings /\ warnings_printed' >= warnings_printed
    /\ counters' # counters => Intake

\* C18: in every state reachable from construction the counters are
\* non-negative with errors_printed <= errors <= number and
\* warnings_printed <= warnings; no operation decreases a counter and only
\* log_filter_url changes one.
C18_Counters == []CountersOrdered /\ [][CountersStep]_vars

\* Two records taken in, one of them invalid and printed, with warnings that
\* were not all printed.
C18_Witness ==
    /\ number = 2 /\ errors = 1 /\ errors_printed = 1
    /\ warnings > warnings_printed /\ warnings_printed > 0

\* The calls hold a write on a stream.
StreamWritten(calls) == \E i \in 1..Len(calls) : calls[i] = "write"

\* C19: a write (direct, or the one of a printed record) that follows a call
\* of close_fileoutput reaches no stream and opens no file, whatever the file
\* output was when close_fileoutput was called, a file path not yet opened
\* included.
C19_Claimed ==
    [][(ret.op = "close_fileoutput" /\ ret'.op \in {"write", "log_filter_url"}) =>
          /\ ~StreamWritten(ret'.calls)
          /\ ~OpenAttempt(ret'.calls)
          /\ out' = out /\ fs' = fs]_vars

====
